---- MODULE Spec2Model ----
(***************************************************************************)
(* State-machine model of class AnalogKeypad (src/analogKeypad.h).         *)
(*                                                                         *)
(* The object is used from a single thread (an Arduino sketch), so every   *)
(* public method is one atomic action, except the busy-wait loops, which   *)
(* take one step per analogRead() sample.  The analog pin is the           *)
(* environment: each sample is drawn from Readings.                        *)
(*                                                                         *)
(* The member _i is a scratch loop counter that every loop resets before   *)
(* reading it; it is kept local to the operators that model the loops.     *)
(***************************************************************************)
EXTENDS Integers, Sequences, FiniteSets

(***************************************************************************)
(* Program constants.                                                      *)
(***************************************************************************)
MAX_KEYS == 25
ERR_NAME_EMPTY == 0
ERR_FORBIDDEN_VALUE == 1
ERR_NOT_SAME_LENGTH == 2
ERR_SIZE_EXCEEDED == 3
REGISTERED == 4

(***************************************************************************)
(* Bounds of the model.                                                    *)
(* MaxVaried: registerKey is called with every valid pair while the table  *)
(* holds fewer than MaxVaried entries, and with the pair Filler after; the *)
(* sketch makes its invalid registerKey calls, its queries and its polls   *)
(* on tables of at most MaxVaried entries and on tables of MAX_KEYS        *)
(* entries or more (keys are registered in setup(), polled in loop()).     *)
(***************************************************************************)
MaxVaried == 1

Names == {"", "A"}
Values == {0, 100, 500, 1023}
Filler == <<"B", 255>>
KeyArgs == (Names \X Values) \cup {Filler}
QueryNames == Names \cup {Filler[1]}
QueryValues == Values \cup {Filler[2]}
Readings == {0, 100, 356, 500, 1023}
NameLists == {<<"A">>, <<"A", "B">>}
ValueLists == {<<100>>}
Pins == {14}
NoPressedArgs == {1023}

(* Contents of memory that no constructor has written: 0 for an object of  *)
(* static storage duration, anything for one on the stack or the heap      *)
(* (word: each 16-bit word, size: the byte of _mapSize).                   *)
GarbageWords == {0, 100}
MemoryImages == {[word |-> 0, size |-> 0], [word |-> 100, size |-> MAX_KEYS]}
(* Addresses malloc() may hand out for a String's buffer.                  *)
HeapWords == {516}

(* Fixed-width members: uint8_t (_mapSize, _key), uint16_t (_values).      *)
Uint8(x) == x % 256
Uint16(x) == x % 65536

(* The slots of _names and _values, and the word just past each array:     *)
(* the members are laid out _names, _values, _lastKey, so _names[MAX_KEYS] *)
(* is the first words of _values and _values[MAX_KEYS] is the first word   *)
(* of _lastKey.                                                            *)
Slots == 0..MAX_KEYS

VARIABLES ctor, _pin, _noPressed, _names, _values, _mapSize, _key, _lastKey,
          pc, call, lastRaw, registered

(* Besides the members: ctor, the constructor that built the object; pc,   *)
(* the loop the caller is blocked in; call, the latest call; lastRaw, the  *)
(* raw sample of the latest getPressed() (-1: none yet); registered, the   *)
(* pairs for which a call has answered REGISTERED.                         *)
vars == <<ctor, _pin, _noPressed, _names, _values, _mapSize, _key, _lastKey,
          pc, call, lastRaw, registered>>

(* The record of the latest call: its arguments, the raw analogRead()      *)
(* sample it took (-1: none) and what it returned.                         *)
NoCall == [op |-> "AnalogKeypad", name |-> "", value |-> 0, reading |-> -1,
           ret |-> -1, text |-> "", flag |-> FALSE,
           names |-> <<>>, values |-> <<>>]

(***************************************************************************)
(* Construction.                                                           *)
(***************************************************************************)
(* AnalogKeypad(pin, noPressed) sets _pin, _noPressed and _mapSize.  The   *)
(* Strings are default-constructed (empty); _values and _key are not       *)
(* written.                                                                *)
Ctor2 ==
  \E p \in Pins, np \in NoPressedArgs, g \in GarbageWords :
    /\ ctor = "AnalogKeypad(pin, noPressed)"
    /\ _pin = p
    /\ _noPressed = np
    /\ _mapSize = 0
    /\ _names = [i \in Slots |-> ""]
    /\ _values = [i \in Slots |-> g]
    /\ _key = Uint8(g)
    /\ _lastKey = ""

(* AnalogKeypad(pin) builds a temporary AnalogKeypad(pin, 0) and discards  *)
(* it: no member of the object itself is written.                          *)
Ctor1 ==
  \E m \in MemoryImages :
    /\ ctor = "AnalogKeypad(pin)"
    /\ _pin = Uint8(m.word)
    /\ _noPressed = m.word
    /\ _mapSize = m.size
    /\ _names = [i \in Slots |-> ""]
    /\ _values = [i \in Slots |-> m.word]
    /\ _key = Uint8(m.word)
    /\ _lastKey = ""

Init ==
  /\ Ctor1 \/ Ctor2
  /\ pc = "idle"
  /\ call = NoCall
  /\ lastRaw = -1
  /\ registered = {}

(***************************************************************************)
(* registerKey                                                             *)
(***************************************************************************)
Outcome(nms, vals, sz, r) == [names |-> nms, values |-> vals, size |-> sz, ret |-> r]

(* What a String assignment leaves in an object that is no valid String,  *)
(* whose words {buffer, capacity, len} hold old: the text it reads back as *)
(* and its three words.  The text is copied to where the buffer word       *)
(* points and only len is set, or a buffer is obtained first, or           *)
(* String::invalidate() zeroes the object.                                 *)
StringImages(text, old) ==
  (IF old[1] # 0 THEN {[text |-> text, words |-> <<old[1], old[2], Len(text)>>]}
                 ELSE {})
    \cup {[text |-> text, words |-> <<b, Len(text), Len(text)>>] : b \in HeapWords}
    \cup {[text |-> "", words |-> <<0, 0, 0>>]}

(* The store at index sz = MAX_KEYS, past the end of both arrays: the      *)
(* String assigned to _names[MAX_KEYS] is built over _values[0..2], and    *)
(* _values[MAX_KEYS] lands in the first word of _lastKey.                  *)
StorePastEnd(nms, vals, sz, name, value) ==
  { Outcome([nms EXCEPT ![sz] = im.text],
            [i \in Slots |-> IF i < Len(im.words) THEN im.words[i + 1]
                             ELSE IF i = sz THEN value ELSE vals[i]],
            Uint8(sz + 1), REGISTERED) :
      im \in StringImages(name, <<vals[0], vals[1], vals[2]>>) }

(* registerKey with the value check made before the name check.           *)
RegisterOutcomesValueFirst(nms, vals, sz, name, value) ==
  IF value = 0 \/ value >= 1023 THEN {Outcome(nms, vals, sz, ERR_FORBIDDEN_VALUE)}
  ELSE IF name = "" THEN {Outcome(nms, vals, sz, ERR_NAME_EMPTY)}
  ELSE IF sz > MAX_KEYS THEN {Outcome(nms, vals, sz, ERR_SIZE_EXCEEDED)}
  ELSE IF sz < MAX_KEYS
    THEN {Outcome([nms EXCEPT ![sz] = name], [vals EXCEPT ![sz] = value],
                  Uint8(sz + 1), REGISTERED)}
  ELSE StorePastEnd(nms, vals, sz, name, value)

(* The outcomes of registerKey(name, value) on the table (nms, vals, sz).  *)
RegisterOutcomes(nms, vals, sz, name, value) ==
  IF name = "" THEN {Outcome(nms, vals, sz, ERR_NAME_EMPTY)}
  ELSE IF value = 0 \/ value >= 1023 THEN {Outcome(nms, vals, sz, ERR_FORBIDDEN_VALUE)}
  ELSE IF sz > MAX_KEYS THEN {Outcome(nms, vals, sz, ERR_SIZE_EXCEEDED)}
  ELSE IF sz < MAX_KEYS
    THEN {Outcome([nms EXCEPT ![sz] = name], [vals EXCEPT ![sz] = value],
                  Uint8(sz + 1), REGISTERED)}
  ELSE StorePastEnd(nms, vals, sz, name, value)

ValidPair(name, value) == name # "" /\ value # 0 /\ value < 1023

(* The calls the model makes: see MaxVaried.                               *)
Probed == _mapSize <= MaxVaried \/ _mapSize >= MAX_KEYS

InputAllowed(name, value) ==
  \/ <<name, value>> = Filler
  \/ Probed /\ (_mapSize < MaxVaried \/ ~ValidPair(name, value))

registerKey(name, value) ==
  /\ pc = "idle"
  /\ InputAllowed(name, value)
  /\ \E o \in RegisterOutcomes(_names, _values, _mapSize, name, Uint16(value)) :
       /\ _names' = o.names
       /\ _values' = o.values
       /\ _mapSize' = o.size
       /\ call' = [NoCall EXCEPT !.op = "registerKey", !.name = name,
                                 !.value = value, !.ret = o.ret]
       /\ registered' = IF o.ret = REGISTERED
                          THEN registered \cup {<<name, value>>}
                          ELSE registered
  /\ UNCHANGED <<ctor, _pin, _noPressed, _key, _lastKey, pc, lastRaw>>

(***************************************************************************)
(* registerKeys                                                            *)
(***************************************************************************)
(* sizeof of a pointer and of a String on the builds of the Arduino core   *)
(* (8-bit AVR, 32-bit ARM); names and values are pointers in the callee.   *)
Builds == {[ptr |-> 2, str |-> 6, u16 |-> 2], [ptr |-> 4, str |-> 12, u16 |-> 2]}

(* <<sizeof(names)/sizeof(String), sizeof(values)/sizeof(uint16_t)>>       *)
ListSizes == {<<Uint8(b.ptr \div b.str), b.ptr \div b.u16>> : b \in Builds}

RECURSIVE RegisterLoop(_, _, _, _, _)
RegisterLoop(i, listSize, nameList, valueList, st) ==
  IF i >= listSize THEN {[st EXCEPT !.ret = REGISTERED]}
  ELSE UNION { IF o.ret # REGISTERED THEN {o}
               ELSE RegisterLoop(i + 1, listSize, nameList, valueList, o) :
               o \in RegisterOutcomes(st.names, st.values, st.size,
                                      nameList[i + 1], valueList[i + 1]) }

registerKeys(nameList, valueList) ==
  /\ pc = "idle"
  /\ Probed
  /\ \E ls \in ListSizes :
       \E o \in (IF ls[1] # ls[2]
                   THEN {Outcome(_names, _values, _mapSize, ERR_NOT_SAME_LENGTH)}
                   ELSE RegisterLoop(0, ls[1], nameList, valueList,
                                     Outcome(_names, _values, _mapSize, REGISTERED))) :
         /\ _names' = o.names
         /\ _values' = o.values
         /\ _mapSize' = o.size
         /\ call' = [NoCall EXCEPT !.op = "registerKeys", !.names = nameList,
                                   !.values = valueList, !.ret = o.ret]
         /\ registered' = registered \cup
              {<<nameList[j], valueList[j]>> : j \in 1..(o.size - _mapSize)}
  /\ UNCHANGED <<ctor, _pin, _noPressed, _key, _lastKey, pc, lastRaw>>

(***************************************************************************)
(* isRegistered                                                            *)
(***************************************************************************)
IsRegisteredName(nms, sz, name) == \E i \in 0..(sz - 1) : nms[i] = name

IsRegisteredValue(vals, sz, value) == \E i \in 0..(sz - 1) : vals[i] = value

isRegisteredName(name) ==
  /\ pc = "idle"
  /\ Probed
  /\ call' = [NoCall EXCEPT !.op = "isRegistered(name)", !.name = name,
                            !.flag = IsRegisteredName(_names, _mapSize, name)]
  /\ UNCHANGED <<ctor, _pin, _noPressed, _names, _values, _mapSize, _key,
                 _lastKey, pc, lastRaw, registered>>

isRegisteredValue(value) ==
  /\ pc = "idle"
  /\ Probed
  /\ call' = [NoCall EXCEPT !.op = "isRegistered(value)", !.value = value,
                            !.flag = IsRegisteredValue(_values, _mapSize, Uint16(value))]
  /\ UNCHANGED <<ctor, _pin, _noPressed, _names, _values, _mapSize, _key,
                 _lastKey, pc, lastRaw, registered>>

(***************************************************************************)
(* getPressed and the calls built on it                                    *)
(***************************************************************************)
(* _key = analogRead(_pin): the int sample stored in the uint8_t member.   *)
StoreKey(reading) == Uint8(reading)

(* The text getPressed() returns once _key holds k.                        *)
Resolve(nms, vals, sz, k) ==
  IF k = 0 \/ k >= 1023 THEN ""
  ELSE IF \E i \in 0..(sz - 1) : vals[i] = k
    THEN nms[CHOOSE i \in 0..(sz - 1) :
               /\ vals[i] = k
               /\ \A j \in 0..(i - 1) : vals[j] # k]
    ELSE ""

getPressed ==
  /\ pc = "idle"
  /\ Probed
  /\ \E r \in Readings :
       /\ _key' = StoreKey(r)
       /\ lastRaw' = r
       /\ call' = [NoCall EXCEPT !.op = "getPressed", !.reading = r,
                                 !.text = Resolve(_names, _values, _mapSize, _key')]
  /\ UNCHANGED <<ctor, _pin, _noPressed, _names, _values, _mapSize, _lastKey,
                 pc, registered>>

(* key != "" && getPressed() == key: no sample is taken for an empty key.  *)
isPressed(k) ==
  /\ pc = "idle"
  /\ Probed
  /\ IF k = ""
       THEN /\ call' = [NoCall EXCEPT !.op = "isPressed", !.name = k]
            /\ UNCHANGED <<_key, lastRaw>>
       ELSE \E r \in Readings :
              /\ _key' = StoreKey(r)
              /\ lastRaw' = r
              /\ call' = [NoCall EXCEPT !.op = "isPressed", !.name = k,
                            !.flag = (Resolve(_names, _values, _mapSize, _key') = k)]
  /\ UNCHANGED <<ctor, _pin, _noPressed, _names, _values, _mapSize, _lastKey,
                 pc, registered>>

(***************************************************************************)
(* The busy-wait loops: one step per sample; pc names the loop the caller  *)
(* is blocked in.                                                          *)
(***************************************************************************)
(* while (_key == analogRead(_pin)); *)
waitChange ==
  /\ pc \in {"idle", "waitChange"}
  /\ Probed
  /\ \E r \in Readings :
       /\ call' = [NoCall EXCEPT !.op = "waitChange", !.reading = r]
       /\ pc' = IF _key = r THEN "waitChange" ELSE "idle"
  /\ UNCHANGED <<ctor, _pin, _noPressed, _names, _values, _mapSize, _key,
                 _lastKey, lastRaw, registered>>

(* while (getPressed() != ""); *)
waitUnpressed ==
  /\ pc \in {"idle", "waitUnpressed"}
  /\ Probed
  /\ \E r \in Readings :
       /\ _key' = StoreKey(r)
       /\ lastRaw' = r
       /\ call' = [NoCall EXCEPT !.op = "waitUnpressed",
                                 !.text = Resolve(_names, _values, _mapSize, _key')]
       /\ pc' = IF call'.text # "" THEN "waitUnpressed" ELSE "idle"
  /\ UNCHANGED <<ctor, _pin, _noPressed, _names, _values, _mapSize, _lastKey,
                 registered>>

(* do { _lastKey = getPressed(); } while (_lastKey == "");                  *)
(* Once _values[MAX_KEYS] has been stored over _lastKey, the assignment    *)
(* works on a damaged String, and rewrites the word it shares with         *)
(* _values[MAX_KEYS].                                                      *)
waitPressed ==
  /\ pc \in {"idle", "waitPressed"}
  /\ Probed
  /\ \E r \in Readings :
       /\ _key' = StoreKey(r)
       /\ lastRaw' = r
       /\ IF _mapSize <= MAX_KEYS
            THEN /\ _lastKey' = Resolve(_names, _values, _mapSize, _key')
                 /\ UNCHANGED _values
            ELSE \E im \in StringImages(Resolve(_names, _values, _mapSize, _key'),
                                         <<_values[MAX_KEYS], Len(_lastKey), Len(_lastKey)>>) :
                   /\ _lastKey' = im.text
                   /\ _values' = [_values EXCEPT ![MAX_KEYS] = im.words[1]]
       /\ call' = [NoCall EXCEPT !.op = "waitPressed", !.reading = r,
                                 !.text = _lastKey']
       /\ pc' = IF _lastKey' = "" THEN "waitPressed" ELSE "idle"
  /\ UNCHANGED <<ctor, _pin, _noPressed, _names, _mapSize, registered>>

(* while (!isPressed(key)); *)
waitPressedKey(k) ==
  /\ \/ pc = "idle"
     \/ pc = "waitPressed(key)" /\ k = call.name
  /\ Probed
  /\ IF k = ""
       THEN /\ call' = [NoCall EXCEPT !.op = "waitPressed(key)", !.name = k]
            /\ pc' = "waitPressed(key)"
            /\ UNCHANGED <<_key, lastRaw>>
       ELSE \E r \in Readings :
              /\ _key' = StoreKey(r)
              /\ lastRaw' = r
              /\ call' = [NoCall EXCEPT !.op = "waitPressed(key)", !.name = k,
                            !.flag = (Resolve(_names, _values, _mapSize, _key') = k)]
              /\ pc' = IF call'.flag THEN "idle" ELSE "waitPressed(key)"
  /\ UNCHANGED <<ctor, _pin, _noPressed, _names, _values, _mapSize, _lastKey,
                 registered>>

Next ==
  \/ \E a \in KeyArgs : registerKey(a[1], a[2])
  \/ \E nl \in NameLists, vl \in ValueLists : registerKeys(nl, vl)
  \/ \E n \in QueryNames : isRegisteredName(n)
  \/ \E v \in QueryValues : isRegisteredValue(v)
  \/ getPressed
  \/ \E k \in QueryNames : isPressed(k)
  \/ waitChange
  \/ waitUnpressed
  \/ waitPressed
  \/ \E k \in QueryNames : waitPressedKey(k)

Spec == Init /\ [][Next]_vars

(***************************************************************************)
(* The claims.                                                             *)
(***************************************************************************)
(* The table was built by the two-argument constructor.                    *)
Ctor2Built == ctor = "AnalogKeypad(pin, noPressed)"

(* No entry has been stored past the end of the arrays.                    *)
InBounds == _mapSize <= MAX_KEYS

(* The name of the first entry, in insertion order, whose value is r;      *)
(* empty text when there is none.                                          *)
FirstEntryNamed(r) ==
  IF \E i \in 0..(_mapSize - 1) : _values[i] = r
    THEN _names[CHOOSE i \in 0..(_mapSize - 1) :
                  /\ _values[i] = r
                  /\ \A j \in 0..(i - 1) : _values[j] # r]
    ELSE ""

(* C1: for a reading r with 0 < r < 1023, getPressed() returns the name of *)
(* the first entry in insertion order whose value equals r, and empty text *)
(* when no entry has value r.                                              *)
C1_GetPressedResolvesReading ==
  (Ctor2Built /\ InBounds /\ call.op = "getPressed"
     /\ 0 < call.reading /\ call.reading < 1023)
    => call.text = FirstEntryNamed(call.reading)

(* C2: when the analog reading is 0, or 1023 or above, getPressed()        *)
(* returns empty text whatever entries are registered.                     *)
C2_BoundaryReadingIsEmpty ==
  (Ctor2Built /\ InBounds /\ call.op = "getPressed"
     /\ (call.reading = 0 \/ call.reading >= 1023))
    => call.text = ""

C4_ValidationOrder ==
  [][call'.op = "registerKey" =>
       /\ call'.name = "" => call'.ret = ERR_NAME_EMPTY
       /\ (call'.name # "" /\ (call'.value = 0 \/ call'.value >= 1023))
            => call'.ret = ERR_FORBIDDEN_VALUE
       /\ call'.ret # REGISTERED => UNCHANGED <<_names, _values, _mapSize>>]_vars

(* C4's case: on a full table, an empty name with a forbidden value is     *)
(* answered ERR_NAME_EMPTY.                                                *)
C4_Witness ==
  /\ Ctor2Built
  /\ _mapSize >= MAX_KEYS
  /\ call.op = "registerKey"
  /\ call.name = ""
  /\ call.value = 0
  /\ call.ret = ERR_NAME_EMPTY

(* C5: the table size is at most MAX_KEYS in every reachable state.        *)
C5_SizeAtMostMaxKeys == Ctor2Built => _mapSize <= MAX_KEYS

(* C6: a registerKey call with a valid pair answers ERR_SIZE_EXCEEDED      *)
(* exactly when the size before the call is MAX_KEYS or more (so the first *)
(* 25 calls on an empty table answer REGISTERED and the 26th does not).    *)
C6_SizeExceededAtCapacity ==
  [][(Ctor2Built /\ call'.op = "registerKey"
        /\ ValidPair(call'.name, call'.value))
       => /\ call'.ret \in {REGISTERED, ERR_SIZE_EXCEEDED}
          /\ call'.ret = ERR_SIZE_EXCEEDED <=> _mapSize >= MAX_KEYS]_vars

(* C7: registerKeys answers ERR_NOT_SAME_LENGTH exactly when the two       *)
(* sequences differ in length; with equal lengths it answers what the      *)
(* registerKey calls answer.                                               *)
C7_NotSameLengthOnlyOnMismatch ==
  call.op = "registerKeys" =>
    (call.ret = ERR_NOT_SAME_LENGTH <=> Len(call.names) # Len(call.values))

(* C8: waitPressed() returns at a sample exactly when the reading is a     *)
(* registered value, and then returns that entry's name.                   *)
C8_WaitPressedReturnsAtRegistered ==
  (Ctor2Built /\ InBounds /\ call.op = "waitPressed")
    => /\ pc = "idle" <=> IsRegisteredValue(_values, _mapSize, call.reading)
       /\ pc = "idle" => call.text = FirstEntryNamed(call.reading)

(* C9: getPressed() stores the raw reading as the last sample, and         *)
(* waitChange() keeps looping exactly while the new raw reading equals the *)
(* reading getPressed() last sampled.                                      *)
C9_WaitChangeComparesRawReadings ==
  /\ call.op = "getPressed" => _key = call.reading
  /\ (call.op = "waitChange" /\ lastRaw # -1)
       => (pc = "waitChange" <=> call.reading = lastRaw)

(* C10: after either constructor the size is 0, isRegistered is false for  *)
(* every name and value, and getPressed() returns empty text for every     *)
(* reading.                                                                *)
C10_ConstructedEmpty ==
  call.op = "AnalogKeypad" =>
    /\ _mapSize = 0
    /\ \A n \in QueryNames : ~IsRegisteredName(_names, _mapSize, n)
    /\ \A v \in QueryValues : ~IsRegisteredValue(_values, _mapSize, v)
    /\ \A r \in Readings : Resolve(_names, _values, _mapSize, StoreKey(r)) = ""

====
